---------------------------- MODULE Spec2Model ----------------------------
(***************************************************************************)
(* A model of the review-text analysis dashboard:                          *)
(*   utils/text_preprocessing.py  TextPreprocessor                         *)
(*   utils/network_analysis.py    NetworkAnalyzer                          *)
(*   utils/topic_modeling.py      TopicModeler                             *)
(*   app.py                       the streamlit script, rerun on every     *)
(*                                interaction of one session               *)
(*                                                                         *)
(* A Python str is a sequence of characters; a character is a one-element  *)
(* TLA+ string.  Characters outside ASCII are written by their code point  *)
(* ("U+B9E4").  pandas' NaN and Python's None are the values NaN and None. *)
(***************************************************************************)
EXTENDS Integers, Sequences, FiniteSets, TLC

VARIABLES
    \* ---- the streamlit session
    uploaded_file,   \* the file_uploader widget's value
    data,            \* st.session_state.data
    stage,           \* where the last run of the script ended
    topic_view,      \* what the last run put in the topic tab
    \* ---- one call of a component's function (SpecText, SpecNet, SpecTopic)
    call,            \* which function was called last
    text,            \* its text argument
    result,          \* what clean_text returned
    keywords,        \* what extract_keywords returned
    \* ---- the sidebar parameters of the session (also the call arguments)
    exclude_words,
    include_words,
    min_frequency,
    \* ---- the pipeline's values
    texts,           \* the documents handed to get_cooccurrence_matrix
    window_size,     \* its window_size argument
    cooccurrence,    \* the dict it returned
    graph,           \* NetworkAnalyzer.graph
    centrality_df,   \* what calculate_centrality_metrics returned
    eigen_converges, \* whether nx.eigenvector_centrality returned, in that call
    \* ---- the TopicModeler instance
    lda_model,
    vectorizer,
    doc_topic_matrix,
    fit_calls,       \* how many times fit_lda_model was called on the instance
    \* ---- the last fit_lda_model call (or the last run's topic stage)
    filtered_texts,  \* its texts argument
    n_topics,        \* its n_topics argument
    topic_model,     \* what it returned
    fit_called,      \* whether the last run called fit_lda_model
    fit_attempted,   \* whether that call invoked the vectorizer
    queried          \* what the last query operation on the TopicModeler gave

textVars == <<text, result, keywords>>
paramVars == <<exclude_words, include_words, min_frequency>>
netVars == <<texts, window_size, cooccurrence, graph, centrality_df, eigen_converges>>
modelerVars == <<lda_model, vectorizer, doc_topic_matrix, fit_calls>>
topicVars == <<filtered_texts, n_topics, topic_model, fit_called, fit_attempted, queried>>
sessionVars == <<uploaded_file, data, stage, topic_view>>

vars == <<uploaded_file, data, stage, topic_view, call, text, result, keywords, exclude_words, include_words, min_frequency,
          texts, window_size, cooccurrence, graph, centrality_df, eigen_converges,
          lda_model, vectorizer, doc_topic_matrix, fit_calls,
          filtered_texts, n_topics, topic_model, fit_called, fit_attempted, queried>>

-----------------------------------------------------------------------------
(* Characters *)

LowerSeq == <<"a","b","c","d","e","f","g","h","i","j","k","l","m",
              "n","o","p","q","r","s","t","u","v","w","x","y","z">>
UpperSeq == <<"A","B","C","D","E","F","G","H","I","J","K","L","M",
              "N","O","P","Q","R","S","T","U","V","W","X","Y","Z">>
DigitSeq == <<"0","1","2","3","4","5","6","7","8","9">>

Range(s) == { s[i] : i \in DOMAIN s }

IndexOf(s, c) == CHOOSE i \in DOMAIN s : s[i] = c

\* The Hangul syllables of the builtin stopwords, by code point.
HangulCode ==
    [ c \in {"U+AC19","U+AC83","U+ADF8","U+AE08","U+B108","U+B4E4","U+B418",
             "U+B9CE","U+B9D0","U+B9E4","U+BB34","U+BC88","U+C218","U+C544",
             "U+C644","U+C6B0","U+C774","U+C788","U+C798","U+C800","U+C804",
             "U+C815","U+C870","U+C88B","U+C8FC","U+C9C4","U+C9DC","U+D558",
             "U+D55C"} |->
        CASE c = "U+AC19" -> 44057 [] c = "U+AC83" -> 44163 [] c = "U+ADF8" -> 44536
          [] c = "U+AE08" -> 44552 [] c = "U+B108" -> 45320 [] c = "U+B4E4" -> 46308
          [] c = "U+B418" -> 46104 [] c = "U+B9CE" -> 47566 [] c = "U+B9D0" -> 47568
          [] c = "U+B9E4" -> 47588 [] c = "U+BB34" -> 47924 [] c = "U+BC88" -> 48264
          [] c = "U+C218" -> 49688 [] c = "U+C544" -> 50500 [] c = "U+C644" -> 50756
          [] c = "U+C6B0" -> 50864 [] c = "U+C774" -> 51060 [] c = "U+C788" -> 51080
          [] c = "U+C798" -> 51096 [] c = "U+C800" -> 51200 [] c = "U+C804" -> 51204
          [] c = "U+C815" -> 51221 [] c = "U+C870" -> 51312 [] c = "U+C88B" -> 51339
          [] c = "U+C8FC" -> 51452 [] c = "U+C9C4" -> 51652 [] c = "U+C9DC" -> 51676
          [] c = "U+D558" -> 54616 [] c = "U+D55C" -> 54620 ]

IsHangul(c) == c \in DOMAIN HangulCode
IsLower(c) == c \in Range(LowerSeq)
IsUpper(c) == c \in Range(UpperSeq)

\* re's \d on str: the decimal digits (str.isdecimal).
IsDecimal(c) == c \in Range(DigitSeq)

\* A digit that is not decimal: SUPERSCRIPT TWO, "U+00B2" (str.isdigit, not
\* str.isdecimal).
IsOtherDigit(c) == c = "U+00B2"

\* re's \s on str.
IsSpace(c) == c \in {" ", "\t", "\n"}

\* re's \w on str: alphanumeric (letters, decimals, other digits) or "_".
IsWord(c) ==
    IsLower(c) \/ IsUpper(c) \/ IsHangul(c) \/ IsDecimal(c) \/ IsOtherDigit(c) \/ c = "_"

\* ord(c), the order Python compares str by.
CodePoint(c) ==
    CASE c = "\t" -> 9
      [] c = "\n" -> 10
      [] c = " " -> 32
      [] c = "!" -> 33
      [] c = "," -> 44
      [] c = "-" -> 45
      [] c = "." -> 46
      [] IsDecimal(c) -> 47 + IndexOf(DigitSeq, c)
      [] IsUpper(c) -> 64 + IndexOf(UpperSeq, c)
      [] c = "_" -> 95
      [] IsLower(c) -> 96 + IndexOf(LowerSeq, c)
      [] c = "U+00B2" -> 178
      [] IsHangul(c) -> HangulCode[c]

\* str.lower(), one character.
LowerChar(c) == IF IsUpper(c) THEN LowerSeq[IndexOf(UpperSeq, c)] ELSE c

lower(s) == [ i \in 1..Len(s) |-> LowerChar(s[i]) ]

\* a <= b for str: lexicographic by code point.
RECURSIVE StrLeq(_, _)
StrLeq(a, b) ==
    IF a = <<>> THEN TRUE
    ELSE IF b = <<>> THEN FALSE
    ELSE IF Head(a) = Head(b) THEN StrLeq(Tail(a), Tail(b))
    ELSE CodePoint(Head(a)) < CodePoint(Head(b))

\* needle in haystack, for str.
Contains(haystack, needle) ==
    \E k \in 0..(Len(haystack) - Len(needle)) :
        \A i \in 1..Len(needle) : haystack[k + i] = needle[i]

\* ' '.join(words)
RECURSIVE Join(_)
Join(words) ==
    IF words = <<>> THEN <<>>
    ELSE IF Len(words) = 1 THEN words[1]
    ELSE words[1] \o <<" ">> \o Join(Tail(words))

NaN == <<"<NaN>">>
None == <<"<None>">>

\* pd.isna(text) for a scalar.
isna(x) == x = NaN \/ x = None

-----------------------------------------------------------------------------
(* TextPreprocessor.clean_text *)

\* re.sub(r'[^\w\s]', ' ', str(text))
sub_nonword(s) ==
    [ i \in 1..Len(s) |-> IF IsWord(s[i]) \/ IsSpace(s[i]) THEN s[i] ELSE " " ]

KeepNonDecimal(c) == ~IsDecimal(c)

\* re.sub(r'\d+', '', text)
sub_digits(s) == SelectSeq(s, KeepNonDecimal)

\* re.sub(r'\s+', ' ', text)
RECURSIVE sub_spaces(_)
sub_spaces(s) ==
    IF s = <<>> THEN <<>>
    ELSE IF IsSpace(Head(s))
         THEN IF Len(s) >= 2 /\ IsSpace(s[2])
              THEN sub_spaces(Tail(s))
              ELSE <<" ">> \o sub_spaces(Tail(s))
         ELSE <<Head(s)>> \o sub_spaces(Tail(s))

\* str.strip()
RECURSIVE lstrip(_)
lstrip(s) == IF s # <<>> /\ IsSpace(Head(s)) THEN lstrip(Tail(s)) ELSE s

RECURSIVE rstrip(_)
rstrip(s) ==
    IF s # <<>> /\ IsSpace(s[Len(s)]) THEN rstrip(SubSeq(s, 1, Len(s) - 1)) ELSE s

strip(s) == rstrip(lstrip(s))

clean_text(t) ==
    IF isna(t) THEN <<>>
    ELSE strip(sub_spaces(sub_digits(sub_nonword(t))))

-----------------------------------------------------------------------------
(* TextPreprocessor.extract_keywords *)

\* The script of a character, as the Okt tokenizer chunks text by script.
ScriptOf(c) ==
    IF IsSpace(c) THEN "space"
    ELSE IF IsHangul(c) THEN "korean"
    ELSE IF IsLower(c) \/ IsUpper(c) THEN "alpha"
    ELSE IF IsDecimal(c) \/ IsOtherDigit(c) THEN "number"
    ELSE "other"

\* self.okt.morphs(text, norm=True, stem=True): the external tokenizer, as far
\* as the program depends on it: an ordered list of non-empty tokens without
\* whitespace, cut at whitespace and where the script changes.  (Okt's
\* stemming of Korean inflections is not modelled.)
RECURSIVE chunks(_, _)
chunks(s, cur) ==
    IF s = <<>> THEN (IF cur = <<>> THEN <<>> ELSE <<cur>>)
    ELSE IF IsSpace(Head(s))
         THEN (IF cur = <<>> THEN <<>> ELSE <<cur>>) \o chunks(Tail(s), <<>>)
    ELSE IF cur = <<>> \/ ScriptOf(cur[Len(cur)]) = ScriptOf(Head(s))
         THEN chunks(Tail(s), Append(cur, Head(s)))
    ELSE <<cur>> \o chunks(Tail(s), <<Head(s)>>)

morphs(t) == chunks(t, <<>>)

\* The builtin stopword set of extract_keywords.
builtin_stopwords ==
    { <<"U+C774">>, <<"U+ADF8">>, <<"U+C800">>, <<"U+AC83">>, <<"U+C218">>,
      <<"U+C788">>, <<"U+D558">>, <<"U+B418">>, <<"U+AC19">>, <<"U+B4E4">>,
      <<"U+B9CE">>, <<"U+C88B">>, <<"U+C798">>,
      <<"U+B9E4","U+C6B0">>, <<"U+C815","U+B9D0">>, <<"U+B108","U+BB34">>,
      <<"U+C544","U+C8FC">>, <<"U+C644","U+C804">>, <<"U+C9C4","U+C9DC">>,
      <<"U+D55C","U+BC88">>, <<"U+C870","U+AE08">> }

\* A mutant: the caller's exclusions are not merged.
stopwords_NoExclusions(ex) == builtin_stopwords

\* stopwords after `if exclude_words: stopwords.update(exclude_words)`.
\* An absent list (None) and an empty one are both the empty sequence: the
\* code only tests the list's truth.
stopwords(ex) == builtin_stopwords \cup Range(ex)

MinKeywordLen == 2

\* The inclusion gate: some inclusion term is a substring of the text, both
\* lowered.
include_gate(t, inc) ==
    \E k \in DOMAIN inc : Contains(lower(t), lower(inc[k]))

extract_keywords(t, ex, inc) ==
    IF t = <<>> THEN <<>>
    ELSE LET stop == stopwords(ex)
             Keep(word) == Len(word) >= MinKeywordLen /\ word \notin stop
             kws == SelectSeq(morphs(t), Keep)
         IN IF inc # <<>> /\ ~include_gate(t, inc) THEN <<>> ELSE kws

-----------------------------------------------------------------------------------------------------------------------------------------------------
(* TextPreprocessor.get_cooccurrence_matrix *)

EmptyDict == [ p \in {} |-> 0 ]

Max(a, b) == IF a >= b THEN a ELSE b
Min(a, b) == IF a <= b THEN a ELSE b

\* The pair as met, without the sort: tuple([word1, word2]).
sorted_pair_AsMet(word1, word2) == <<word1, word2>>

\* tuple(sorted([word1, word2]))
sorted_pair(word1, word2) ==
    IF StrLeq(word1, word2) THEN <<word1, word2>> ELSE <<word2, word1>>

\* The (i, j) the two loops visit for one keyword list, 1-based:
\* j in range(max(0, i-window_size), min(len(keywords), i+window_size+1)), i != j.
visited(kws, w) ==
    { ij \in (DOMAIN kws) \X (DOMAIN kws) :
        /\ ij[2] >= Max(1, ij[1] - w)
        /\ ij[2] <= Min(Len(kws), ij[1] + w)
        /\ ij[1] # ij[2] }

\* cooccurrence after the loops over one document's keywords: one increment
\* of cooccurrence[pair] per visited (i, j).
add_document(cooc, kws, w) ==
    LET key(ij) == sorted_pair(kws[ij[1]], kws[ij[2]])
        keys == { key(ij) : ij \in visited(kws, w) }
    IN [ p \in (DOMAIN cooc) \cup keys |->
            (IF p \in DOMAIN cooc THEN cooc[p] ELSE 0)
            + Cardinality({ ij \in visited(kws, w) : key(ij) = p }) ]

RECURSIVE accumulate(_, _, _, _, _)
accumulate(cooc, ts, ex, inc, w) ==
    IF ts = <<>> THEN cooc
    ELSE accumulate(add_document(cooc, extract_keywords(Head(ts), ex, inc), w),
                    Tail(ts), ex, inc, w)

\* The dict's insertion order is not modelled.
get_cooccurrence_matrix(ts, ex, inc, w) == accumulate(EmptyDict, ts, ex, inc, w)

DefaultWindow == 5

-----------------------------------------------------------------------------
(* NetworkAnalyzer *)

\* self.graph = None
NoGraph == [ is_none |-> TRUE, nodes |-> {}, edges |-> {}, weight |-> EmptyDict ]

\* A mutant: the threshold is exclusive.
create_network_Exclusive(cooc, freq) ==
    LET E == { p \in DOMAIN cooc : cooc[p] > freq }
    IN [ is_none |-> FALSE,
         nodes |-> UNION { {p[1], p[2]} : p \in E },
         edges |-> E,
         weight |-> [ p \in E |-> cooc[p] ] ]

\* nx.Graph() then add_edge(word1, word2, weight=freq) for every item with
\* freq >= min_frequency; add_edge adds the two endpoints as nodes.
create_network(cooc, freq) ==
    LET E == { p \in DOMAIN cooc : cooc[p] >= freq }
    IN [ is_none |-> FALSE,
         nodes |-> UNION { {p[1], p[2]} : p \in E },
         edges |-> E,
         weight |-> [ p \in E |-> cooc[p] ] ]

\* G.degree(n): the edges at n, a self-loop counted twice.
degree(G, n) ==
    Cardinality({ e \in G.edges : n \in {e[1], e[2]} })
    + (IF <<n, n>> \in G.edges THEN 1 ELSE 0)

\* A score is a fraction num/den; a score the library computes that the model
\* does not (betweenness, closeness, a converged eigenvector) is Computed.
Fraction(n, d) == [ known |-> TRUE, num |-> n, den |-> d ]
Computed == [ known |-> FALSE, num |-> 0, den |-> 1 ]

\* list(G.nodes()), in the order of the words (the insertion order is not
\* modelled).
RECURSIVE node_list(_)
node_list(S) ==
    IF S = {} THEN <<>>
    ELSE LET first == CHOOSE x \in S : \A y \in S : StrLeq(x, y)
         IN <<first>> \o node_list(S \ {first})

\* nx.degree_centrality(G): 1 for every node when len(G) <= 1, else
\* degree * 1/(len(G) - 1).
degree_centrality(G) ==
    LET ns == node_list(G.nodes)
    IN [ i \in DOMAIN ns |->
            IF Len(ns) <= 1 THEN Fraction(1, 1)
            ELSE Fraction(degree(G, ns[i]), Len(ns) - 1) ]

\* A mutant: the failure is answered with an empty mapping.
eigenvector_or_zero_Empty(G, converges) ==
    IF converges THEN [ i \in DOMAIN node_list(G.nodes) |-> Computed ] ELSE <<>>

\* try: nx.eigenvector_centrality(G, max_iter=1000)
\* except: {node: 0 for node in G.nodes()}
eigenvector_or_zero(G, converges) ==
    IF converges THEN [ i \in DOMAIN node_list(G.nodes) |-> Computed ]
    ELSE [ i \in DOMAIN node_list(G.nodes) |-> Fraction(0, 1) ]

EmptyDataFrame == [ raised |-> FALSE, rows |-> <<>> ]

\* pd.DataFrame({column: list, ...}): one row per position; lists of
\* different lengths raise ValueError.
DataFrame(keyword, deg, btw, clo, eig) ==
    IF \E col \in {deg, btw, clo, eig} : Len(col) # Len(keyword)
    THEN [ raised |-> TRUE, rows |-> <<>> ]
    ELSE [ raised |-> FALSE,
           rows |-> [ i \in DOMAIN keyword |->
                        [ keyword |-> keyword[i],
                          degree_centrality |-> deg[i],
                          betweenness_centrality |-> btw[i],
                          closeness_centrality |-> clo[i],
                          eigenvector_centrality |-> eig[i] ] ] ]

\* The order sort_values gives the rows is not modelled.
calculate_centrality_metrics(G, converges) ==
    IF G.is_none \/ Cardinality(G.nodes) = 0 THEN EmptyDataFrame
    ELSE LET ns == node_list(G.nodes)
         IN DataFrame(ns,
                      degree_centrality(G),
                      [ i \in DOMAIN ns |-> Computed ],
                      [ i \in DOMAIN ns |-> Computed ],
                      eigenvector_or_zero(G, converges))

-----------------------------------------------------------------------------
(* TopicModeler *)

\* None, for the three attributes and for what fit_lda_model returns.
NoModel == [ is_none |-> TRUE, call |-> 0, fitted |-> FALSE, n_components |-> 0,
             vocabulary |-> {} ]
NoVectorizer == [ is_none |-> TRUE, call |-> 0, fitted |-> FALSE, vocabulary |-> {} ]
NoMatrix == [ is_none |-> TRUE, call |-> 0, n_docs |-> 0, n_topics |-> 0 ]

\* TopicModeler.__init__
NewTopicModeler ==
    [ lda_model |-> NoModel, vectorizer |-> NoVectorizer, doc_topic_matrix |-> NoMatrix ]

MaxFeatures == 100
MinDf == 2
MaxDfPercent == 80
MinTokenLen == 2

\* re.findall(r'\b\w{2,}\b', doc.lower()): the runs of word characters of
\* length 2 or more.
RECURSIVE word_runs(_, _)
word_runs(s, cur) ==
    LET done == IF Len(cur) >= MinTokenLen THEN <<cur>> ELSE <<>>
    IN IF s = <<>> THEN done
       ELSE IF IsWord(Head(s)) THEN word_runs(Tail(s), Append(cur, Head(s)))
       ELSE done \o word_runs(Tail(s), <<>>)

tokenize(doc) == word_runs(lower(doc), <<>>)

\* How many documents hold the term; toks[i] are the tokens of document i.
document_frequency(toks, term) ==
    Cardinality({ i \in DOMAIN toks : term \in Range(toks[i]) })

\* How often the terms occur in all the documents.
RECURSIVE term_count(_, _)
term_count(toks, terms) ==
    IF toks = <<>> THEN 0
    ELSE Cardinality({ k \in DOMAIN Head(toks) : Head(toks)[k] \in terms })
         + term_count(Tail(toks), terms)

\* The terms max_features keeps: all of them up to the cap, else the cap's
\* number of most frequent ones.
limit_features(toks, terms) ==
    IF Cardinality(terms) <= MaxFeatures THEN terms
    ELSE CHOOSE S \in SUBSET terms :
            /\ Cardinality(S) = MaxFeatures
            /\ \A x \in S, y \in terms \ S :
                  term_count(toks, {x}) >= term_count(toks, {y})

\* The terms that pass min_df and max_df.
prune(toks, all) ==
    { term \in all :
        /\ document_frequency(toks, term) >= MinDf
        /\ 100 * document_frequency(toks, term) <= MaxDfPercent * Len(toks) }

fit_result(toks, all, kept) ==
    IF all = {} THEN [ raised |-> TRUE, vocabulary |-> {}, sum |-> 0 ]
    ELSE IF MaxDfPercent * Len(toks) < 100 * MinDf
         THEN [ raised |-> TRUE, vocabulary |-> {}, sum |-> 0 ]
    ELSE IF kept = {} THEN [ raised |-> TRUE, vocabulary |-> {}, sum |-> 0 ]
    ELSE [ raised |-> FALSE, vocabulary |-> kept, sum |-> term_count(toks, kept) ]

prune_vocab(toks, all) == fit_result(toks, all, limit_features(toks, prune(toks, all)))

\* fit_transform on the documents' tokens.
count_vocab(toks) == prune_vocab(toks, UNION { Range(toks[i]) : i \in DOMAIN toks })

\* CountVectorizer(max_features=100, min_df=2, max_df=0.8,
\* token_pattern=r'\b\w{2,}\b').fit_transform(texts): raises ValueError on an
\* empty vocabulary, when max_df * n_docs < min_df, and when pruning leaves no
\* term; else the vocabulary and the matrix's total count.
fit_transform(ts) == count_vocab([ i \in DOMAIN ts |-> tokenize(ts[i]) ])

\* not texts or all(not text.strip() for text in texts)
nothing_to_fit(ts) == ts = <<>> \/ \A i \in DOMAIN ts : strip(ts[i]) = <<>>

\* fit_lda_model after the guard: X is what vectorizer.fit_transform(texts)
\* gave.  A raise, or a matrix without counts, returns None with the new
\* vectorizer left on the instance.
fit_after_guard(self, ts, k, id, X) ==
    IF X.raised \/ X.sum = 0
    THEN [ self |-> [ self EXCEPT !.vectorizer =
                        [ is_none |-> FALSE, call |-> id, fitted |-> ~X.raised,
                          vocabulary |-> X.vocabulary ] ],
           ret |-> NoModel, invoked |-> TRUE ]
    ELSE [ self |-> [ lda_model |->
                        [ is_none |-> FALSE, call |-> id, fitted |-> TRUE,
                          n_components |-> k, vocabulary |-> X.vocabulary ],
                      vectorizer |->
                        [ is_none |-> FALSE, call |-> id, fitted |-> TRUE,
                          vocabulary |-> X.vocabulary ],
                      doc_topic_matrix |->
                        [ is_none |-> FALSE, call |-> id, n_docs |-> Len(ts),
                          n_topics |-> k ] ],
           ret |-> [ is_none |-> FALSE, call |-> id, fitted |-> TRUE,
                     n_components |-> k, vocabulary |-> X.vocabulary ],
           invoked |-> TRUE ]

\* fit_lda_model(texts, n_topics) as call number `id` on the instance `self`:
\* the instance afterwards, what is returned, and whether the vectorizer was
\* invoked.
fit_lda_model(self, ts, k, id) ==
    IF nothing_to_fit(ts)
    THEN [ self |-> self, ret |-> NoModel, invoked |-> FALSE ]
    ELSE fit_after_guard(self, ts, k, id, fit_transform(ts))

\* No query operation was called.
NoQuery ==
    [ op |-> "none", raised |-> FALSE, not_trained |-> FALSE, size |-> 0,
      model_call |-> 0, vectorizer_call |-> 0 ]

DefaultTopWords == 10
SummaryTopWords == 5

\* The body both keyword queries share: `not self.lda_model or not
\* self.vectorizer` gives the empty result; get_feature_names_out() raises
\* NotFittedError on a vectorizer that was never fitted; else each of the
\* model's topics gives its top n_words terms (all of them when fewer).
topic_keywords(self, op, n_words, per_topic) ==
    IF self.lda_model.is_none \/ self.vectorizer.is_none
    THEN [ NoQuery EXCEPT !.op = op ]
    ELSE IF ~self.vectorizer.fitted
    THEN [ NoQuery EXCEPT !.op = op, !.raised = TRUE,
                          !.model_call = self.lda_model.call,
                          !.vectorizer_call = self.vectorizer.call ]
    ELSE [ op |-> op, raised |-> FALSE, not_trained |-> FALSE,
           size |-> self.lda_model.n_components
                    * (IF per_topic
                       THEN Min(n_words, Cardinality(self.lda_model.vocabulary))
                       ELSE 1),
           model_call |-> self.lda_model.call,
           vectorizer_call |-> self.vectorizer.call ]

\* get_topics_dataframe(n_words): one row per topic and top word.
get_topics_dataframe(self, n_words) ==
    topic_keywords(self, "get_topics_dataframe", n_words, TRUE)

\* get_topic_keywords_summary(): one entry per topic.
get_topic_keywords_summary(self) ==
    topic_keywords(self, "get_topic_keywords_summary", SummaryTopWords, FALSE)

\* create_topic_distribution_plot(): the "not trained" annotation when
\* doc_topic_matrix is None, else one bar per topic of the held matrix.
create_topic_distribution_plot(self) ==
    IF self.doc_topic_matrix.is_none
    THEN [ NoQuery EXCEPT !.op = "create_topic_distribution_plot", !.not_trained = TRUE ]
    ELSE [ NoQuery EXCEPT !.op = "create_topic_distribution_plot",
                          !.size = self.doc_topic_matrix.n_topics,
                          !.model_call = self.doc_topic_matrix.call ]

-----------------------------------------------------------------------------
(* app.py: the script *)

\* uploaded_file is None
NoFile == [ is_none |-> TRUE, parses |-> FALSE, has_context |-> FALSE, Context |-> <<>> ]

\* st.session_state.data = None
NoData == [ is_none |-> TRUE, has_context |-> FALSE, Context |-> <<>> ]

\* pd.read_csv(uploaded_file), for a file it can parse: the frame with the
\* file's columns, of which the model keeps 'Context'.
read_csv(file) ==
    [ is_none |-> FALSE, has_context |-> file.has_context, Context |-> file.Context ]

MinDocuments == 5
MinFrequencyLow == 1
MinFrequencyHigh == 5
DefaultMinFrequency == 2
MinTopics == 3
MaxTopics == 10
DefaultTopics == 5

NonBlank(t) == strip(t) # <<>>

\* The loop that prepares the topic model's documents: ' '.join(keywords) of
\* every text whose keyword list is not empty.
RECURSIVE joined_keywords(_, _, _)
joined_keywords(ts, ex, inc) ==
    IF ts = <<>> THEN <<>>
    ELSE LET kws == extract_keywords(Head(ts), ex, inc)
         IN (IF kws # <<>> THEN <<Join(kws)>> ELSE <<>>)
            \o joined_keywords(Tail(ts), ex, inc)

\* A mutant: four documents are enough.
enough_documents_Four(ft) == Len(ft) >= 4

\* len(filtered_texts) >= 5
enough_documents(ft) == Len(ft) >= MinDocuments

\* The return statement of perform_realtime_analysis, with the session's
\* objects afterwards: `fit` is the fit_lda_model call the function makes when
\* there are enough documents.
analysis_result(ts, cooc, G, ft, fit, modeler, calls) ==
    IF enough_documents(ft)
    THEN [ none |-> FALSE, texts |-> ts, cooccurrence |-> cooc, graph |-> G,
           filtered_texts |-> ft, topic_model |-> fit.ret,
           fit_called |-> TRUE, fit_attempted |-> fit.invoked,
           modeler |-> fit.self, fit_calls |-> calls + 1 ]
    ELSE [ none |-> FALSE, texts |-> ts, cooccurrence |-> cooc, graph |-> G,
           filtered_texts |-> ft, topic_model |-> NoModel,
           fit_called |-> FALSE, fit_attempted |-> FALSE,
           modeler |-> modeler, fit_calls |-> calls ]

\* perform_realtime_analysis() from the cleaned, non-blank texts on.
analyse_texts(ts, cooc, ft, G, modeler, calls, k, freq) ==
    IF ts = <<>>
    THEN [ none |-> TRUE, texts |-> ts, cooccurrence |-> EmptyDict, graph |-> G,
           filtered_texts |-> <<>>, topic_model |-> NoModel,
           fit_called |-> FALSE, fit_attempted |-> FALSE,
           modeler |-> modeler, fit_calls |-> calls ]
    ELSE analysis_result(ts, cooc, create_network(cooc, freq), ft,
                         fit_lda_model(modeler, ft, k, calls + 1), modeler, calls)

keywords_of_texts(ts, ex, inc, G, modeler, calls, k, freq) ==
    analyse_texts(ts,
                  get_cooccurrence_matrix(ts, ex, inc, DefaultWindow),
                  joined_keywords(ts, ex, inc),
                  G, modeler, calls, k, freq)

\* perform_realtime_analysis() on a frame that has the column: what it
\* returns, and the analyzer's graph, the modeler and its number of fit calls
\* afterwards.
perform_realtime_analysis(df, G, modeler, calls, ex, inc, k, freq) ==
    keywords_of_texts(
        SelectSeq([ i \in DOMAIN df.Context |-> clean_text(df.Context[i]) ], NonBlank),
        ex, inc, G, modeler, calls, k, freq)

\* The topic tab: `if topic_model and len(filtered_texts) >= 5`, else the
\* warning that there is not enough data.
topic_tab(model, ft) ==
    IF ~model.is_none /\ Len(ft) >= MinDocuments THEN "shown" ELSE "disabled"

MaxFits == 2

\* A run that ends before the analysis: its locals are never bound; the
\* analyzer and the modeler of the session are as they were.
NoAnalysis ==
    /\ texts' = <<>>
    /\ cooccurrence' = EmptyDict
    /\ filtered_texts' = <<>>
    /\ topic_model' = NoModel
    /\ fit_called' = FALSE
    /\ fit_attempted' = FALSE
    /\ queried' = NoQuery
    /\ centrality_df' = EmptyDataFrame
    /\ eigen_converges' = TRUE
    /\ UNCHANGED <<graph, modelerVars>>

\* One run of the script with the widgets at the given values.
Script(file, ex, inc, k, freq) ==
    LET parsed == ~file.is_none /\ file.parses
        df == IF parsed THEN read_csv(file) ELSE data
        stopped == ~file.is_none /\ (~file.parses \/ ~df.has_context)
        self == [ lda_model |-> lda_model, vectorizer |-> vectorizer,
                  doc_topic_matrix |-> doc_topic_matrix ]
    IN \E r \in { perform_realtime_analysis(df, graph, self, fit_calls, ex, inc, k, freq) } :
       /\ uploaded_file' = file
       /\ exclude_words' = ex
       /\ include_words' = inc
       /\ n_topics' = k
       /\ min_frequency' = freq
       /\ data' = df
       /\ UNCHANGED <<call, textVars, window_size>>
       /\ IF stopped
          THEN \* st.error(...); st.stop()
               /\ stage' = IF file.parses THEN "validation_error" ELSE "load_error"
               /\ topic_view' = "hidden"
               /\ NoAnalysis
          ELSE IF df.is_none
          THEN \* the initial screen
               /\ stage' = "initial_screen"
               /\ topic_view' = "hidden"
               /\ NoAnalysis
          ELSE IF ~df.has_context
          THEN \* st.session_state.data['Context'] raises KeyError
               /\ stage' = "KeyError"
               /\ topic_view' = "hidden"
               /\ NoAnalysis
          ELSE /\ r.fit_calls <= MaxFits
               /\ texts' = r.texts
               /\ cooccurrence' = r.cooccurrence
               /\ graph' = r.graph
               /\ filtered_texts' = r.filtered_texts
               /\ topic_model' = r.topic_model
               /\ fit_called' = r.fit_called
               /\ fit_attempted' = r.fit_attempted
               /\ queried' = NoQuery
               /\ lda_model' = r.modeler.lda_model
               /\ vectorizer' = r.modeler.vectorizer
               /\ doc_topic_matrix' = r.modeler.doc_topic_matrix
               /\ fit_calls' = r.fit_calls
               /\ IF r.none
                  THEN \* st.warning(...); st.stop()
                       /\ stage' = "no_data_warning"
                       /\ topic_view' = "hidden"
                       /\ centrality_df' = EmptyDataFrame
                       /\ eigen_converges' = TRUE
                  ELSE /\ stage' = "results"
                       /\ topic_view' = topic_tab(r.topic_model, r.filtered_texts)
                       /\ \E converges \in BOOLEAN :
                             /\ eigen_converges' = converges
                             /\ centrality_df' =
                                   calculate_centrality_metrics(r.graph, converges)

-----
(* Inputs of the unit-level specifications *)

MaxLen == 3
MaxWords == 3

Sigma == {"a", "B", "1", "U+00B2", "_", ".", " ", "\t"}

CharTexts == UNION { [1..n -> Sigma] : n \in 0..MaxLen }

room == <<"r","o","o","m">>
clean == <<"c","l","e","a","n">>
service == <<"s","e","r","v","i","c","e">>
great == <<"g","r","e","a","t">>
small == <<"s","m","a","l","l">>
view == <<"v","i","e","w">>
nice == <<"n","i","c","e">>
bed == <<"b","e","d">>
comfortable == <<"c","o","m","f","o","r","t","a","b","l","e">>
very == <<"U+B9E4","U+C6B0">>

WordPool == {room, clean, service, very, <<"a">>}

WordTexts == { Join(ws) : ws \in UNION { [1..n -> WordPool] : n \in 0..MaxWords } }

ExcludeChoices == { <<>>, <<room>>, <<clean, <<"a","B">> >> }
IncludeChoices == { <<>>, <<<<"B">>>>, <<<<"R","o","o">>, <<"a","1">> >> }

-----------------------------------------------------------------------------
(* SpecText: calls of clean_text and extract_keywords on bounded inputs *)

NetAtRest ==
    /\ texts = <<>>
    /\ window_size = DefaultWindow
    /\ cooccurrence = EmptyDict
    /\ graph = NoGraph
    /\ centrality_df = EmptyDataFrame
    /\ eigen_converges = TRUE

TopicAtRest ==
    /\ lda_model = NoModel
    /\ vectorizer = NoVectorizer
    /\ doc_topic_matrix = NoMatrix
    /\ fit_calls = 0
    /\ filtered_texts = <<>>
    /\ n_topics = DefaultTopics
    /\ topic_model = NoModel
    /\ fit_called = FALSE
    /\ fit_attempted = FALSE
    /\ queried = NoQuery

SessionAtRest ==
    /\ uploaded_file = NoFile
    /\ data = NoData
    /\ stage = "initial_screen"
    /\ topic_view = "hidden"

InitText ==
    /\ call = "none"
    /\ min_frequency = DefaultMinFrequency
    /\ NetAtRest
    /\ TopicAtRest
    /\ SessionAtRest
    /\ text \in CharTexts \cup WordTexts \cup {NaN}
    /\ result = <<>>
    /\ keywords = <<>>
    /\ exclude_words \in ExcludeChoices
    /\ include_words \in IncludeChoices

\* result = clean_text(text), text a raw cell (a str, or NaN)
CallCleanText ==
    /\ call = "none"
    /\ exclude_words = <<>> /\ include_words = <<>>
    /\ call' = "clean_text"
    /\ result' = clean_text(text)
    /\ UNCHANGED <<text, keywords, paramVars, netVars, modelerVars, topicVars, sessionVars>>

\* result = clean_text(result): cleaning what clean_text returned
CallCleanTextAgain ==
    /\ call = "clean_text"
    /\ call' = "clean_text_again"
    /\ text' = result
    /\ result' = clean_text(result)
    /\ UNCHANGED <<keywords, paramVars, netVars, modelerVars, topicVars, sessionVars>>

\* keywords = extract_keywords(text, exclude_words, include_words)
CallExtractKeywords ==
    /\ call = "none"
    /\ text # NaN
    /\ call' = "extract_keywords"
    /\ keywords' = extract_keywords(text, exclude_words, include_words)
    /\ UNCHANGED <<text, result, paramVars, netVars, modelerVars, topicVars, sessionVars>>

NextText == CallCleanText \/ CallCleanTextAgain \/ CallExtractKeywords

SpecText == InitText /\ [][NextText]_vars

-----------------------------------------------------------------------------
(* Claims about clean_text and extract_keywords (SpecText) *)

\* sub is seq with some elements left out, the others in their order.
RECURSIVE IsSubsequence(_, _)
IsSubsequence(sub, seq) ==
    IF sub = <<>> THEN TRUE
    ELSE IF seq = <<>> THEN FALSE
    ELSE IF Head(sub) = Head(seq) THEN IsSubsequence(Tail(sub), Tail(seq))
    ELSE IsSubsequence(sub, Tail(seq))

\* C6: no token that is a member of the exclusion list appears in the list
\* extract_keywords returns, and the tokens it returns are tokens of the text
\* in their original relative order.
C6_ExcludedTokensNeverExtracted ==
    call = "extract_keywords" =>
        /\ \A i \in DOMAIN keywords : keywords[i] \notin Range(exclude_words)
        /\ IsSubsequence(keywords, morphs(text))

\* C6's example: exclusion [room] on [room, clean, service] gives [clean, service].
C6_Witness ==
    /\ call = "extract_keywords"
    /\ text = Join(<<room, clean, service>>)
    /\ exclude_words = <<room>>
    /\ include_words = <<>>
    /\ keywords = <<clean, service>>

\* Punctuation: neither a letter, nor a digit, nor whitespace ("_" is
\* punctuation: Unicode category Pc, a member of string.punctuation).
IsPunctuation(c) ==
    ~(IsLower(c) \/ IsUpper(c) \/ IsHangul(c) \/ IsDecimal(c) \/ IsOtherDigit(c) \/ IsSpace(c))

\* A digit: str.isdigit().
IsDigit(c) == IsDecimal(c) \/ IsOtherDigit(c)

\* C10: clean_text is idempotent, and what it returns contains no
\* punctuation, no digit, no leading or trailing whitespace and no run of two
\* or more whitespace characters.
C10_CleanTextIdempotentAndClean ==
    /\ call = "clean_text_again" => result = text
    /\ call \in {"clean_text", "clean_text_again"} =>
        /\ \A i \in DOMAIN result : ~IsPunctuation(result[i]) /\ ~IsDigit(result[i])
        /\ result # <<>> => ~IsSpace(result[1]) /\ ~IsSpace(result[Len(result)])
        /\ \A i \in 1..(Len(result) - 1) : ~(IsSpace(result[i]) /\ IsSpace(result[i + 1]))

-----------------------------------------------------------------------------
(* SpecNet: get_cooccurrence_matrix, create_network and                    *)
(* calculate_centrality_metrics on bounded document lists                  *)

MaxDocLen == 2
MaxDocs == 2

aa == <<"a","a">>
bb == <<"b","b">>

NetWords == {aa, bb}

NetDocs == { Join(ws) : ws \in UNION { [1..n -> NetWords] : n \in 1..MaxDocLen } }

NetTextLists == UNION { [1..n -> NetDocs] : n \in 0..MaxDocs }

ExampleTexts ==
    << Join(<<service, great, clean>>),
       Join(<<service, great, clean>>),
       Join(<<service, clean>>),
       Join(<<room, small, clean>>),
       Join(<<view, nice, bed, comfortable>>) >>

\* Documents longer than the smaller window, with a token that repeats.
FarTexts ==
    << Join(<<aa, bb, aa>>),
       Join(<<bb, aa, bb, aa>>) >>

InitNet ==
    /\ call = "none"
    /\ text = <<>> /\ result = <<>> /\ keywords = <<>>
    /\ exclude_words = <<>>
    /\ include_words = <<>>
    /\ min_frequency = DefaultMinFrequency
    /\ texts \in NetTextLists \cup {ExampleTexts, FarTexts}
    /\ window_size \in {1, DefaultWindow}
    /\ cooccurrence = EmptyDict
    /\ graph = NoGraph
    /\ centrality_df = EmptyDataFrame
    /\ eigen_converges = TRUE
    /\ TopicAtRest
    /\ SessionAtRest

CallGetCooccurrence ==
    /\ call = "none"
    /\ call' = "get_cooccurrence_matrix"
    /\ cooccurrence' =
          get_cooccurrence_matrix(texts, exclude_words, include_words, window_size)
    /\ UNCHANGED <<textVars, paramVars, texts, window_size, graph, centrality_df,
                   eigen_converges, modelerVars, topicVars, sessionVars>>

CallCreateNetwork ==
    /\ \/ call \in {"get_cooccurrence_matrix", "create_network"}
       \/ call = "calculate_centrality_metrics" /\ ~graph.is_none
    /\ \E freq \in MinFrequencyLow..MinFrequencyHigh :
          /\ min_frequency' = freq
          /\ graph' = create_network(cooccurrence, freq)
    /\ call' = "create_network"
    /\ UNCHANGED <<textVars, exclude_words, include_words, texts, window_size,
                   cooccurrence, centrality_df, eigen_converges, modelerVars, topicVars, sessionVars>>

CallCalculateCentrality ==
    /\ call \in {"none", "create_network"}
    /\ \E converges \in BOOLEAN :
          /\ eigen_converges' = converges
          /\ centrality_df' = calculate_centrality_metrics(graph, converges)
    /\ call' = "calculate_centrality_metrics"
    /\ UNCHANGED <<textVars, paramVars, texts, window_size, cooccurrence, graph,
                   modelerVars, topicVars, sessionVars>>

NextNet == CallGetCooccurrence \/ CallCreateNetwork \/ CallCalculateCentrality

SpecNet == InitNet /\ [][NextNet]_vars

-----------------------------------------------------------------------------
(* Claims about the co-occurrence map and the network (SpecNet) *)

\* C1: on the five example documents with window 5 and min_frequency 2, the
\* pair (clean, service) has the accumulated count 3 and is an edge, and the
\* pair (bed, view) has the accumulated count 1 and is no edge.
C1_ExampleCounts ==
    ( /\ call = "create_network"
      /\ texts = ExampleTexts
      /\ exclude_words = <<>> /\ include_words = <<>>
      /\ window_size = 5
      /\ min_frequency = 2 )
    => /\ <<clean, service>> \in DOMAIN cooccurrence
       /\ cooccurrence[<<clean, service>>] = 3
       /\ <<clean, service>> \in graph.edges
       /\ <<bed, view>> \in DOMAIN cooccurrence
       /\ cooccurrence[<<bed, view>>] = 1
       /\ <<bed, view>> \notin graph.edges

InUnitInterval(score) ==
    score.known => score.den > 0 /\ 0 <= score.num /\ score.num <= score.den

\* C7: every score of the centrality table lies in [0,1]; in particular each
\* node's degree centrality, its degree divided by (number of nodes - 1), is
\* at most 1.
C7_ScoresInUnitInterval ==
    call = "calculate_centrality_metrics" =>
        \A i \in DOMAIN centrality_df.rows :
            /\ InUnitInterval(centrality_df.rows[i].degree_centrality)
            /\ InUnitInterval(centrality_df.rows[i].betweenness_centrality)
            /\ InUnitInterval(centrality_df.rows[i].closeness_centrality)
            /\ InUnitInterval(centrality_df.rows[i].eigenvector_centrality)

\* C8: calculate_centrality_metrics raises nothing; the table has exactly one
\* row per node of the analyzer's graph, and none when the graph has no nodes
\* or was never created; when the eigenvector computation fails every node's
\* eigenvector score is 0 and the other three scores are still there.
C8_CentralityTableTotal ==
    call = "calculate_centrality_metrics" =>
        LET rows == centrality_df.rows IN
        /\ ~centrality_df.raised
        /\ Len(rows) = Cardinality(graph.nodes)
        /\ { rows[i].keyword : i \in DOMAIN rows } = graph.nodes
        /\ (graph.is_none \/ graph.nodes = {}) => rows = <<>>
        /\ ~eigen_converges =>
              \A i \in DOMAIN rows :
                  /\ rows[i].eigenvector_centrality = Fraction(0, 1)
                  /\ rows[i].degree_centrality.known
                  /\ rows[i].betweenness_centrality = Computed
                  /\ rows[i].closeness_centrality = Computed

\* A table of several rows whose eigenvector computation failed.
C8_Witness ==
    /\ call = "calculate_centrality_metrics"
    /\ ~eigen_converges
    /\ Len(centrality_df.rows) >= 2
    /\ centrality_df.rows[1].eigenvector_centrality = Fraction(0, 1)

\* The keyword sequence of document d of the call.
KeywordsOf(d) == extract_keywords(texts[d], exclude_words, include_words)

Distance(i, j) == IF i >= j THEN i - j ELSE j - i

\* Every (document, i, j): two positions of the same document.
PositionPairs ==
    UNION { { <<d, i, j>> : i \in DOMAIN KeywordsOf(d), j \in DOMAIN KeywordsOf(d) } :
              d \in DOMAIN texts }

\* The ordered position pairs (i, j) of one document, i # j, at most
\* window_size apart, whose tokens are a and b in either order.
CountedPairs(a, b) ==
    { t \in PositionPairs :
        /\ t[2] # t[3]
        /\ Distance(t[2], t[3]) <= window_size
        /\ {KeywordsOf(t[1])[t[2]], KeywordsOf(t[1])[t[3]]} = {a, b} }

TokensOfCall == UNION { Range(KeywordsOf(d)) : d \in DOMAIN texts } \cup NetWords

\* C11: the count of two tokens a and b is held under one key that does not
\* depend on their order, and equals the number of ordered position pairs
\* (i, j), over all documents, with i # j, |i - j| <= window_size and tokens
\* a and b in either order; position pairs farther apart, or in different
\* documents, add nothing (a pair of tokens with no such positions has no key).
C11_CountsOrderedPositionPairs ==
    call = "get_cooccurrence_matrix" =>
        /\ \A p \in DOMAIN cooccurrence :
              /\ p = sorted_pair(p[2], p[1])
              /\ p[1] # p[2] => <<p[2], p[1]>> \notin DOMAIN cooccurrence
              /\ p[1] \in TokensOfCall /\ p[2] \in TokensOfCall
        /\ \A a \in TokensOfCall : \A b \in TokensOfCall :
              LET n == Cardinality(CountedPairs(a, b))
                  key == IF StrLeq(a, b) THEN <<a, b>> ELSE <<b, a>>
              IN /\ n = 0 => key \notin DOMAIN cooccurrence
                 /\ n > 0 => key \in DOMAIN cooccurrence /\ cooccurrence[key] = n

\* Window 1 on [aa bb aa], [bb aa bb aa]: the adjacent positions are counted
\* from both ends (5 adjacencies, 10 ordered pairs), the two aa of a document,
\* two positions apart, are not.
C11_Witness ==
    /\ call = "get_cooccurrence_matrix"
    /\ texts = FarTexts
    /\ window_size = 1
    /\ cooccurrence[<<aa, bb>>] = 10
    /\ <<aa, aa>> \notin DOMAIN cooccurrence

C9_EdgesExactlyAtThreshold ==
    (call = "create_network") =>
        /\ graph.edges \subseteq DOMAIN cooccurrence
        /\ \A p \in DOMAIN cooccurrence :
              p \in graph.edges <=> cooccurrence[p] >= min_frequency
        /\ \A p \in graph.edges : graph.weight[p] = cooccurrence[p]
        /\ \A p \in graph.edges : p[1] \in graph.nodes /\ p[2] \in graph.nodes
        /\ \A n \in graph.nodes : \E p \in graph.edges : n \in {p[1], p[2]}

C9_RaisingNeverAdds ==
    ( /\ call = "create_network" /\ call' = "create_network"
      /\ cooccurrence' = cooccurrence
      /\ min_frequency' >= min_frequency )
    => /\ graph'.edges \subseteq graph.edges
       /\ graph'.nodes \subseteq graph.nodes
       /\ Cardinality(graph'.edges) <= Cardinality(graph.edges)
       /\ Cardinality(graph'.nodes) <= Cardinality(graph.nodes)

\* C9: an edge exists exactly for the pairs whose count is at least the
\* threshold, the nodes are exactly the endpoints of the edges, and building
\* the graph of the same map with a threshold at least as high gives a subset
\* of the edges and of the nodes.
C9_ThresholdMonotonic == [] C9_EdgesExactlyAtThreshold /\ [][C9_RaisingNeverAdds]_vars

\* A graph that kept some pairs and dropped others.
C9_Witness ==
    /\ call = "create_network"
    /\ graph.edges # {}
    /\ \E p \in DOMAIN cooccurrence : p \notin graph.edges
    /\ \E n \in UNION { {p[1], p[2]} : p \in DOMAIN cooccurrence } : n \notin graph.nodes

-----------------------------------------------------------------------------
(* SpecTopic: calls of fit_lda_model on one TopicModeler *)

MaxTopicDocs == 5

TopicDocPool == { <<>>, Join(<<aa, bb>>) }

TopicTextLists == UNION { [1..n -> TopicDocPool] : n \in 0..MaxTopicDocs }

InitTopic ==
    /\ call = "none"
    /\ text = <<>> /\ result = <<>> /\ keywords = <<>>
    /\ exclude_words = <<>> /\ include_words = <<>>
    /\ min_frequency = DefaultMinFrequency
    /\ NetAtRest
    /\ TopicAtRest
    /\ SessionAtRest

CallFitLdaModel ==
    /\ fit_calls < MaxFits
    /\ \E ts \in TopicTextLists, k \in {MinTopics, MaxTopics} :
          LET self == [ lda_model |-> lda_model, vectorizer |-> vectorizer,
                        doc_topic_matrix |-> doc_topic_matrix ]
              r == fit_lda_model(self, ts, k, fit_calls + 1)
          IN /\ filtered_texts' = ts
             /\ n_topics' = k
             /\ topic_model' = r.ret
             /\ fit_attempted' = r.invoked
             /\ queried' = NoQuery
             /\ lda_model' = r.self.lda_model
             /\ vectorizer' = r.self.vectorizer
             /\ doc_topic_matrix' = r.self.doc_topic_matrix
    /\ fit_called' = TRUE
    /\ fit_calls' = fit_calls + 1
    /\ call' = "fit_lda_model"
    /\ UNCHANGED <<textVars, paramVars, netVars, sessionVars>>

Modeler ==
    [ lda_model |-> lda_model, vectorizer |-> vectorizer,
      doc_topic_matrix |-> doc_topic_matrix ]

\* A query leaves the instance and the last call's record as they are.
queryFrame ==
    <<textVars, paramVars, netVars, modelerVars, sessionVars,
      filtered_texts, n_topics, topic_model, fit_called, fit_attempted>>

CallGetTopicsDataframe ==
    /\ call' = "get_topics_dataframe"
    /\ \E n_words \in {1, DefaultTopWords} :
          queried' = get_topics_dataframe(Modeler, n_words)
    /\ UNCHANGED queryFrame

CallCreateTopicDistributionPlot ==
    /\ call' = "create_topic_distribution_plot"
    /\ queried' = create_topic_distribution_plot(Modeler)
    /\ UNCHANGED queryFrame

CallGetTopicKeywordsSummary ==
    /\ call' = "get_topic_keywords_summary"
    /\ queried' = get_topic_keywords_summary(Modeler)
    /\ UNCHANGED queryFrame

NextTopic ==
    \/ CallFitLdaModel
    \/ CallGetTopicsDataframe
    \/ CallCreateTopicDistributionPlot
    \/ CallGetTopicKeywordsSummary

SpecTopic == InitTopic /\ [][NextTopic]_vars

\* C3: fit_lda_model, called with fewer than 5 documents, returns None and
\* invokes neither the vectorizer nor the LDA model.
C3_FewerThanFiveReturnsNone ==
    (call = "fit_lda_model" /\ Len(filtered_texts) < 5) =>
        /\ topic_model.is_none
        /\ ~fit_attempted

\* The components the instance holds, each with the fit call that made it.
HeldCalls ==
    { c.call : c \in { x \in {lda_model, vectorizer, doc_topic_matrix} : ~x.is_none } }

\* C12: on one TopicModeler, unless the most recent fit_lda_model call
\* returned a fitted model (also when no call was made), get_topics_dataframe
\* and get_topic_keywords_summary return an empty result without raising and
\* create_topic_distribution_plot reports that no model is trained; and the
\* held lda_model, vectorizer and doc_topic_matrix never come from different
\* fit calls.
C12_QueriesFollowLastFit ==
    /\ (topic_model.is_none
          /\ call \in {"get_topics_dataframe", "get_topic_keywords_summary"})
        => (~queried.raised /\ queried.size = 0)
    /\ (topic_model.is_none /\ call = "create_topic_distribution_plot")
        => queried.not_trained
    /\ Cardinality(HeldCalls) <= 1

-----------------------------------------------------------------------------
(* SpecRun: one run of the script on a bounded uploaded dataset *)

MaxRows == 5

\* Raw cells of the 'Context' column: "AA bb", "a1a bb", "bb.", and a
\* missing value.
RowPool ==
    { <<"A","A"," ","b","b">>, <<"a","1","a"," ","b","b">>, <<"b","b",".">>, NaN }

RowLists == UNION { [1..n -> RowPool] : n \in 0..MaxRows }

\* An uploaded CSV with the 'Context' column.
ContextFile(rows) ==
    [ is_none |-> FALSE, parses |-> TRUE, has_context |-> TRUE, Context |-> rows ]

\* An uploaded CSV without it, and an upload read_csv raises on.
NoContextFile ==
    [ is_none |-> FALSE, parses |-> TRUE, has_context |-> FALSE, Context |-> <<>> ]
UnparsableFile ==
    [ is_none |-> FALSE, parses |-> FALSE, has_context |-> FALSE, Context |-> <<>> ]

ExcludeInputs == { <<>>, <<bb>> }
IncludeInputs == { <<>>, <<aa>> }

\* The session after the user picked a file and set the sidebar, the rerun
\* those changes trigger still to come.
InitRun ==
    /\ call = "none"
    /\ text = <<>> /\ result = <<>> /\ keywords = <<>>
    /\ exclude_words \in ExcludeInputs
    /\ include_words \in IncludeInputs
    /\ min_frequency \in {MinFrequencyLow, DefaultMinFrequency}
    /\ NetAtRest
    /\ TopicAtRest
    /\ uploaded_file \in { ContextFile(rows) : rows \in RowLists }
    /\ data = NoData
    /\ stage = "rerun_pending"
    /\ topic_view = "hidden"

RunPending ==
    /\ stage = "rerun_pending"
    /\ Script(uploaded_file, exclude_words, include_words, n_topics, min_frequency)

NextRun == RunPending

SpecRun == InitRun /\ [][NextRun]_vars

-----------------------------------------------------------------------------
(* Spec: the interactions of one session, each followed by a run of the     *)
(* script                                                                   *)

MaxSessionRows == 1

SessionFiles ==
    { ContextFile(rows) : rows \in UNION { [1..n -> RowPool] : n \in 0..MaxSessionRows } }
    \cup { ContextFile(ExampleTexts), NoContextFile, UnparsableFile }

\* The session after its first run: nothing uploaded, the initial screen.
Init ==
    /\ call = "none"
    /\ text = <<>> /\ result = <<>> /\ keywords = <<>>
    /\ exclude_words = <<>>
    /\ include_words = <<>>
    /\ min_frequency = DefaultMinFrequency
    /\ NetAtRest
    /\ TopicAtRest
    /\ SessionAtRest

\* The user uploads a file.
Upload ==
    \E file \in SessionFiles :
        Script(file, exclude_words, include_words, n_topics, min_frequency)

\* The user clears the uploader.
ClearUploader ==
    /\ ~uploaded_file.is_none
    /\ Script(NoFile, exclude_words, include_words, n_topics, min_frequency)

\* The user edits the exclusion or the inclusion keywords.
ChangeKeywords ==
    \E ex \in ExcludeInputs, inc \in IncludeInputs :
        /\ <<ex, inc>> # <<exclude_words, include_words>>
        /\ Script(uploaded_file, ex, inc, n_topics, min_frequency)

\* The user moves a slider.
ChangeSlider ==
    \E k \in {MinTopics, DefaultTopics}, freq \in {MinFrequencyLow, DefaultMinFrequency} :
        /\ <<k, freq>> # <<n_topics, min_frequency>>
        /\ Script(uploaded_file, exclude_words, include_words, k, freq)

\* Any other interaction reruns the script with the widgets as they are.
Rerun ==
    Script(uploaded_file, exclude_words, include_words, n_topics, min_frequency)

Next == Upload \/ ClearUploader \/ ChangeKeywords \/ ChangeSlider \/ Rerun

Spec == Init /\ [][Next]_vars

-----------------------------------------------------------------------------
(* Claims about a run of the script *)

\* What the row's document contributes: its keyword list, empty when the
\* cleaned text is blank.
Contribution(cell) ==
    IF NonBlank(clean_text(cell))
    THEN extract_keywords(clean_text(cell), exclude_words, include_words)
    ELSE <<>>

\* The raw cell as text: str(cell).
RawText(cell) == IF cell = NaN THEN <<"n","a","n">> ELSE cell

\* C2: with a non-empty inclusion list, every uploaded document that
\* contributes a non-empty keyword list contains, in its raw text as
\* uploaded, some member of the list as a case-insensitive substring (so a
\* document whose raw text contains none contributes an empty list).
C2_InclusionOnRawText ==
    (stage = "results" /\ include_words # <<>>) =>
        \A i \in DOMAIN data.Context :
            Contribution(data.Context[i]) # <<>> =>
                \E k \in DOMAIN include_words :
                    Contains(lower(RawText(data.Context[i])), lower(include_words[k]))

\* The documents of the run's dataset that have a non-empty keyword list.
ContributingRows == { i \in DOMAIN data.Context : Contribution(data.Context[i]) # <<>> }

C5_MissingColumnIsReported ==
    (~data.is_none /\ ~data.has_context) =>
        /\ stage \in {"validation_error", "load_error"}
        /\ stage # "KeyError"

=============================================================================
